---- MODULE Spec2Model ----
(***************************************************************************)
(* Model of the motorcycle part-visualization core of Zephyr:              *)
(*   src/util/image_mask.rs   MaskGenerator (region mask synthesis)        *)
(*   src/custom/motorcycle.rs MotorcycleCustomizer (single and batched     *)
(*                            mask + inpaint round trips)                  *)
(*   src/aws/bedrock.rs       BedrockImageGenerator::inpaint               *)
(* and of the task status loop of the WebSocket endpoint:                  *)
(*   src/main.rs              handle_socket                                *)
(*   src/meshy/client.rs      MeshyClient::get_task_status                 *)
(***************************************************************************)
EXTENDS Integers, Sequences, FiniteSets, TLC

(***************************************************************************)
(* Bounds of the model.                                                    *)
(***************************************************************************)
\* canvas sides 0..MaxDim are enumerated for the rasterizer
MaxDim == 5
\* number of visualize_custom_part calls the callers may start in one behaviour
MaxRequests == 2
\* number of generate_options runs in one behaviour
MaxBatches == 1
\* the polls of one WebSocket connection are counted up to MaxPolls
MaxPolls == 3

(***************************************************************************)
(* Single-precision arithmetic.  A positive binary32 value is a record     *)
(* [m, e] standing for m * 2^e with 2^23 <= m < 2^24; zero is [0, 0].      *)
(* Products are rounded to nearest, ties to even, as the hardware does.    *)
(* All intermediate quantities are kept below 2^31.                        *)
(***************************************************************************)
TwoTo12 == 4096
TwoTo22 == 4194304
TwoTo23 == 8388608
TwoTo24 == 16777216

F32Zero == [m |-> 0, e |-> 0]

\* normalise an exactly representable positive integer n < 2^24
RECURSIVE F32Norm(_, _)
F32Norm(n, e) == IF n >= TwoTo23 THEN [m |-> n, e |-> e]
                 ELSE F32Norm(2 * n, e - 1)

\* `image_width as f32` for a u32 below 2^24 (exact)
U32ToF32(n) == IF n = 0 THEN F32Zero ELSE F32Norm(n, 0)

\* smallest k with num * 2^k >= 2^23 * den
RECURSIVE LitShift(_, _, _)
LitShift(num, den, k) == IF num >= TwoTo23 * den THEN k
                         ELSE LitShift(2 * num, den, k + 1)

\* a decimal literal num/den (den <= 100) read as an f32: nearest value, ties to even
F32Lit(num, den) ==
    LET k  == LitShift(num, den, 0)
        n  == num * 2^k
        q  == n \div den
        r  == n % den
        up == (2 * r > den) \/ (2 * r = den /\ q % 2 = 1)
        mm == IF up THEN q + 1 ELSE q
    IN  IF mm = TwoTo24 THEN [m |-> TwoTo23, e |-> 1 - k]
        ELSE [m |-> mm, e |-> 0 - k]

\* f32 * f32, round to nearest even.  The 48-bit product is held as H*2^24 + L.
F32Mul(a, b) ==
    IF a.m = 0 \/ b.m = 0 THEN F32Zero
    ELSE
    LET a1  == a.m \div TwoTo12
        a0  == a.m % TwoTo12
        b1  == b.m \div TwoTo12
        b0  == b.m % TwoTo12
        mid == a1 * b0 + a0 * b1
        lo  == a0 * b0 + (mid % TwoTo12) * TwoTo12
        L   == lo % TwoTo24
        H   == a1 * b1 + (mid \div TwoTo12) + (lo \div TwoTo24)
        big == H >= TwoTo23
        q   == IF big THEN H ELSE 2 * H + (L \div TwoTo23)
        r   == IF big THEN L ELSE L % TwoTo23
        hf  == IF big THEN TwoTo23 ELSE TwoTo22
        up  == (r > hf) \/ (r = hf /\ q % 2 = 1)
        mm  == IF up THEN q + 1 ELSE q
        ee  == a.e + b.e + (IF big THEN 24 ELSE 23)
    IN  IF mm = TwoTo24 THEN [m |-> TwoTo23, e |-> ee + 1]
        ELSE [m |-> mm, e |-> ee]

\* variant: `x.round() as i32`, halves rounded away from zero
F32RoundToI32(x) ==
    IF x.m = 0 THEN 0
    ELSE IF x.e >= 0 THEN x.m * 2^(x.e)
    ELSE IF 0 - x.e >= 25 THEN 0
    ELSE (x.m + 2^(0 - x.e - 1)) \div 2^(0 - x.e)

\* variant: `x.ceil() as i32`
F32CeilToI32(x) ==
    IF x.m = 0 THEN 0
    ELSE IF x.e >= 0 THEN x.m * 2^(x.e)
    ELSE IF 0 - x.e >= 24 THEN 1
    ELSE (x.m + 2^(0 - x.e) - 1) \div 2^(0 - x.e)

\* `x as i32` for a non-negative f32 below 2^31: truncation toward zero
F32ToI32(x) ==
    IF x.m = 0 THEN 0
    ELSE IF x.e >= 0 THEN x.m * 2^(x.e)
    ELSE IF 0 - x.e >= 24 THEN 0
    ELSE x.m \div 2^(0 - x.e)

(***************************************************************************)
(* Results (anyhow::Result): Ok(v) or Err(e).                              *)
(***************************************************************************)
Ok(v)  == [ok |-> TRUE, val |-> v]
Err(e) == [ok |-> FALSE, err |-> e]

(***************************************************************************)
(* src/util/image_mask.rs                                                  *)
(***************************************************************************)
PartType == {"Exhaust", "Seat", "Handlebar"}
MaskIntensity == {"Minimal", "Medium", "Aggressive"}

\* standard deviation of the soft border, gaussian_blur_f32(&mask, 15.0)
BlurSigma == 15

\* the f32 literals of create_part_mask
f32_0_5 == F32Lit(5, 10)
f32_0_65 == F32Lit(65, 100)
f32_0_35 == F32Lit(35, 100)
f32_0_25 == F32Lit(25, 100)
f32_0_45 == F32Lit(45, 100)
f32_0_15 == F32Lit(15, 100)
f32_0_12 == F32Lit(12, 100)
f32_0_4 == F32Lit(4, 10)
f32_0_2 == F32Lit(2, 10)
f32_0_8 == F32Lit(8, 10)
f32_1_0 == F32Lit(1, 1)
f32_1_2 == F32Lit(12, 10)

\* variant: Aggressive widens the radii by a half
scale_wide(intensity) ==
    CASE intensity = "Minimal"    -> f32_0_8
      [] intensity = "Medium"     -> f32_1_0
      [] intensity = "Aggressive" -> F32Lit(15, 10)

\* variant: the multipliers of Minimal and Aggressive exchanged
scale_reversed(intensity) ==
    CASE intensity = "Minimal"    -> f32_1_2
      [] intensity = "Medium"     -> f32_1_0
      [] intensity = "Aggressive" -> f32_0_8

\* let scale = match intensity { ... }
scale(intensity) ==
    CASE intensity = "Minimal"    -> f32_0_8
      [] intensity = "Medium"     -> f32_1_0
      [] intensity = "Aggressive" -> f32_1_2

\* variant: the scale multiplies the centre as well as the radii
part_ellipse_scaled_centre(image_width, image_height, part_type, intensity) ==
    LET w == U32ToF32(image_width)
        h == U32ToF32(image_height)
        s == scale(intensity)
    IN  CASE part_type = "Exhaust" ->
               [x      |-> F32ToI32(F32Mul(F32Mul(w, f32_0_5), s)),
                y      |-> F32ToI32(F32Mul(F32Mul(h, f32_0_65), s)),
                width  |-> F32ToI32(F32Mul(F32Mul(w, f32_0_35), s)),
                height |-> F32ToI32(F32Mul(F32Mul(h, f32_0_25), s))]
          [] part_type = "Seat" ->
               [x      |-> F32ToI32(F32Mul(F32Mul(w, f32_0_5), s)),
                y      |-> F32ToI32(F32Mul(F32Mul(h, f32_0_45), s)),
                width  |-> F32ToI32(F32Mul(F32Mul(w, f32_0_15), s)),
                height |-> F32ToI32(F32Mul(F32Mul(h, f32_0_12), s))]
          [] part_type = "Handlebar" ->
               [x      |-> F32ToI32(F32Mul(F32Mul(w, f32_0_4), s)),
                y      |-> F32ToI32(F32Mul(F32Mul(h, f32_0_25), s)),
                width  |-> F32ToI32(F32Mul(F32Mul(w, f32_0_2), s)),
                height |-> F32ToI32(F32Mul(F32Mul(h, f32_0_12), s))]

\* (x, y), width, height handed to draw_filled_ellipse_mut, per match arm
part_ellipse(image_width, image_height, part_type, intensity) ==
    LET w == U32ToF32(image_width)
        h == U32ToF32(image_height)
        s == scale(intensity)
    IN  CASE part_type = "Exhaust" ->
               [x      |-> F32ToI32(F32Mul(w, f32_0_5)),
                y      |-> F32ToI32(F32Mul(h, f32_0_65)),
                width  |-> F32ToI32(F32Mul(F32Mul(w, f32_0_35), s)),
                height |-> F32ToI32(F32Mul(F32Mul(h, f32_0_25), s))]
          [] part_type = "Seat" ->
               [x      |-> F32ToI32(F32Mul(w, f32_0_5)),
                y      |-> F32ToI32(F32Mul(h, f32_0_45)),
                width  |-> F32ToI32(F32Mul(F32Mul(w, f32_0_15), s)),
                height |-> F32ToI32(F32Mul(F32Mul(h, f32_0_12), s))]
          [] part_type = "Handlebar" ->
               [x      |-> F32ToI32(F32Mul(w, f32_0_4)),
                y      |-> F32ToI32(F32Mul(h, f32_0_25)),
                width  |-> F32ToI32(F32Mul(F32Mul(w, f32_0_2), s)),
                height |-> F32ToI32(F32Mul(F32Mul(h, f32_0_12), s))]

\* A GrayImage is described by its dimensions, the filled ellipse drawn on
\* the zeroed canvas and the blur applied afterwards (sigma 0: no blur).
GrayImage(w, h, ell, sigma) ==
    [width |-> w, height |-> h, ellipse |-> ell, sigma |-> sigma]

\* variant: a blur that keeps only the pixels the whole kernel fits on
\* (a "valid" convolution), so each side shrinks by two kernel radii
gaussian_blur_f32_valid(image, sigma) ==
    [image EXCEPT !.sigma = sigma,
                  !.width = IF image.width > 4 * sigma THEN image.width - 4 * sigma ELSE 0,
                  !.height = IF image.height > 4 * sigma THEN image.height - 4 * sigma ELSE 0]

\* imageproc's gaussian_blur_f32(&mask, sigma): a new image of the same
\* dimensions, the input filtered with a Gaussian of that sigma
gaussian_blur_f32(image, sigma) == [image EXCEPT !.sigma = sigma]

\* MaskGenerator::create_part_mask: no validation of the dimensions, the
\* only exit is Ok(blurred_mask)
create_part_mask(image_width, image_height, part_type, intensity) ==
    Ok(gaussian_blur_f32(
          GrayImage(image_width, image_height,
                    part_ellipse(image_width, image_height, part_type, intensity),
                    0),
          BlurSigma))

\* variant: the blur of create_part_mask applied whatever feather_radius is
create_custom_mask_blur_always(image_width, image_height, region_x, region_y, region_width, region_height, feather_radius) ==
    LET w == U32ToF32(image_width)
        h == U32ToF32(image_height)
        mask == GrayImage(image_width, image_height,
                          [x      |-> F32ToI32(F32Mul(w, region_x)),
                           y      |-> F32ToI32(F32Mul(h, region_y)),
                           width  |-> F32ToI32(F32Mul(w, region_width)),
                           height |-> F32ToI32(F32Mul(h, region_height))], 0)
    IN  Ok(gaussian_blur_f32(mask, BlurSigma))

\* variant: the hard mask returned whatever feather_radius is
create_custom_mask_blur_never(image_width, image_height, region_x, region_y, region_width, region_height, feather_radius) ==
    LET w == U32ToF32(image_width)
        h == U32ToF32(image_height)
    IN  Ok(GrayImage(image_width, image_height,
                     [x      |-> F32ToI32(F32Mul(w, region_x)),
                      y      |-> F32ToI32(F32Mul(h, region_y)),
                      width  |-> F32ToI32(F32Mul(w, region_width)),
                      height |-> F32ToI32(F32Mul(h, region_height))], 0))

\* MaskGenerator::create_custom_mask: the region is given as fractions of
\* the canvas (f32), feather_radius as a whole number of pixels; the blur
\* is applied only if feather_radius > 0.0
create_custom_mask(image_width, image_height, region_x, region_y, region_width, region_height, feather_radius) ==
    LET w == U32ToF32(image_width)
        h == U32ToF32(image_height)
        mask == GrayImage(image_width, image_height,
                          [x      |-> F32ToI32(F32Mul(w, region_x)),
                           y      |-> F32ToI32(F32Mul(h, region_y)),
                           width  |-> F32ToI32(F32Mul(w, region_width)),
                           height |-> F32ToI32(F32Mul(h, region_height))], 0)
    IN  IF feather_radius > 0
        THEN Ok(gaussian_blur_f32(mask, feather_radius))
        ELSE Ok(mask)

\* Luma([255u8])
white == 255

\* the pixel coordinates (x, y) of a canvas
CanvasPixels(w, h) == (0 .. (w - 1)) \X (0 .. (h - 1))

\* GrayImage::new(width, height): every pixel 0
new_canvas(w, h) == [p \in CanvasPixels(w, h) |-> 0]

\* whether draw_filled_ellipse_mut(mask, (x, y), width, height, color)
\* paints the coordinate p: p lies in the ellipse of centre (x, y) and
\* radii width and height (a segment when a radius is 0, the centre alone
\* when both are)
InEllipse(p, ell) ==
    LET dx == p[1] - ell.x
        dy == p[2] - ell.y
        a  == ell.width
        b  == ell.height
    IN  /\ 0 - a <= dx /\ dx <= a
        /\ 0 - b <= dy /\ dy <= b
        /\ b * b * dx * dx + a * a * dy * dy <= a * a * b * b

\* variant: a painted coordinate past the right or the left edge wraps
\* around to the opposite edge of its row
draw_filled_ellipse_mut_wrapping(canvas, ell, color) ==
    LET w == Cardinality({p[1] : p \in DOMAIN canvas})
    IN  [p \in DOMAIN canvas |->
           IF \/ InEllipse(p, ell)
              \/ InEllipse(<<p[1] + w, p[2]>>, ell)
              \/ InEllipse(<<p[1] - w, p[2]>>, ell)
           THEN color ELSE canvas[p]]

\* draw_filled_ellipse_mut: the painted coordinates that lie on the canvas
\* take the colour, the other pixels are kept
draw_filled_ellipse_mut(canvas, ell, color) ==
    [p \in DOMAIN canvas |-> IF InEllipse(p, ell) THEN color ELSE canvas[p]]

\* the pixels of the mask before any blur: `mask` after the draw call
hard_pixels(image) ==
    draw_filled_ellipse_mut(new_canvas(image.width, image.height), image.ellipse, white)

\* variant: RgbImage::new(height, width)
to_rgb_mask_transposed(gray_mask) ==
    [width |-> gray_mask.height, height |-> gray_mask.width,
     r |-> gray_mask, g |-> gray_mask, b |-> gray_mask]

\* MaskGenerator::to_rgb_mask: same dimensions, the gray value replicated
\* into the three channels
to_rgb_mask(gray_mask) ==
    [width |-> gray_mask.width, height |-> gray_mask.height,
     r |-> gray_mask, g |-> gray_mask, b |-> gray_mask]

(***************************************************************************)
(* The environment of the pipeline: callers, files, the inpainting service *)
(***************************************************************************)
Callers == {1, 2}

BasePaths == {"base.jpg", "missing.jpg"}
\* the bike and part descriptions the callers pass for each part type: those
\* of the usage example (exhaust) and of test_motorcycle_customization
Descriptions ==
    [Exhaust   |-> [bike |-> "sport bike with red fairings",
                    desc |-> "chrome dual exhaust with carbon tips"],
     Seat      |-> [bike |-> "cruiser style motorcycle",
                    desc |-> "brown vintage leather seat with diamond stitching pattern, comfortable padding, classic styling"],
     Handlebar |-> [bike |-> "naked bike style",
                    desc |-> "black aluminum clip-on handlebars, racing position, anodized finish with integrated bar-end mirrors"]]
\* the bytes Bedrock answers a request with; answers to requests of
\* different callers or intensities differ
ServiceBytes(r) == "image[" \o ToString(r.caller) \o "," \o r.intensity \o "]"

\* variant: one path for every part type
MaskPathShared(part_type) == "temp_mask.png"

\* variant: the mask is saved under the name of a photograph
MaskPathOverPhoto(part_type) == "other.jpg"

\* format!("temp_mask_{:?}.png", part_type)
MaskPath(part_type) == "temp_mask_" \o part_type \o ".png"

\* a second photograph, used where two base images are compared
OtherPhoto == "other.jpg"

Paths == BasePaths \cup {OtherPhoto} \cup {MaskPath(p) : p \in PartType}

NoFile == [exists |-> FALSE, width |-> 0, height |-> 0, content |-> "none"]
PhotoFile(w, h, id) == [exists |-> TRUE, width |-> w, height |-> h, content |-> id]
\* rgb_mask.save(&mask_path): the file holds the RGB mask
MaskFile(rgb) == [exists |-> TRUE, width |-> rgb.width, height |-> rgb.height,
                  content |-> rgb]

VARIABLES
    fs,        \* the file system: path -> file
    pc,        \* caller -> position in visualize_custom_part / generate_options
    op,        \* caller -> the top-level operation it runs
    frame,     \* caller -> arguments and locals of its visualize_custom_part call
    ret,       \* caller -> value returned by its last visualize_custom_part call
    batch,     \* caller -> state of its generate_options loop
    bret,      \* caller -> value returned by its last generate_options call
    inflight,  \* inpainting requests sent to Bedrock and not yet answered
    steps,     \* caller -> what happened at each step of its current call
    started,   \* number of top-level requests started so far
    mk_pc,     \* position of the rasterizer call under study: "call" or "ret"
    mk_in,     \* its arguments
    mk_out,    \* its result
    mk_rgb,    \* to_rgb_mask of its result, once converted
    task,      \* the 3D task at Meshy: status, progress, whether a model exists
    client,    \* the WebSocket peer: "open" or "gone"
    ws_pc,     \* position of handle_socket: "poll", "send", "senderr", "sleep", "closed"
    ws_status, \* value of the last get_task_status call
    ws_sent,   \* the last message sent to the client
    ws_polls,  \* number of get_task_status calls, counted up to MaxPolls
    ws_log     \* what has happened on the connection so far

pipeVars == <<fs, pc, op, frame, ret, batch, bret, inflight, steps, started>>
maskVars == <<mk_pc, mk_in, mk_out, mk_rgb>>
wsVars == <<task, client, ws_pc, ws_status, ws_sent, ws_polls, ws_log>>
vars == <<fs, pc, op, frame, ret, batch, bret, inflight, steps, started, mk_pc, mk_in, mk_out, mk_rgb,
          task, client, ws_pc, ws_status, ws_sent, ws_polls, ws_log>>

\* no RGB image yet
NoRgb == to_rgb_mask(GrayImage(0, 0, [x |-> 0, y |-> 0, width |-> 0, height |-> 0], 0))

NoFrame == [base |-> "", part |-> "", bike |-> "", desc |-> "", intensity |-> "",
            gray |-> GrayImage(0, 0, [x |-> 0, y |-> 0, width |-> 0, height |-> 0], 0),
            mask_path |-> "", result |-> ""]
NoSteps == [decode |-> "none", raster |-> "none", save |-> "none",
            inpaint |-> "none", rm |-> "none", sends |-> 0, resp |-> "none",
            prompt |-> "", negative |-> "", mask_sent |-> NoFile]
NoBatch == [i |-> 0, results |-> <<>>, attempts |-> <<>>, outcomes |-> <<>>,
            sends |-> <<>>]
Pending == Err("pending")

\* let intensities = vec![Minimal, Medium, Aggressive]
intensities == <<"Minimal", "Medium", "Aggressive">>

\* variant: the part type's own name in lower case
part_name_lower(part_type) ==
    CASE part_type = "Exhaust"   -> "exhaust"
      [] part_type = "Seat"      -> "seat"
      [] part_type = "Handlebar" -> "handlebar"

\* let part_name = match part_type { ... }
part_name(part_type) ==
    CASE part_type = "Exhaust"   -> "exhaust system"
      [] part_type = "Seat"      -> "seat"
      [] part_type = "Handlebar" -> "handlebars"

\* let prompt = format!(...) in visualize_custom_part
prompt(bike_description, pname, part_description) ==
    bike_description \o " style motorcycle with custom " \o pname
    \o " installed, " \o part_description
    \o ", seamlessly integrated aftermarket part, "
    \o "maintaining original frame geometry and proportions, "
    \o "professional product photography, photorealistic, "
    \o "high detail, studio lighting, 8k"

\* let negative_prompt = ... in visualize_custom_part
negative_prompt ==
    "different motorcycle model, changed body style, "
    \o "distorted proportions, unrealistic, blurry, low quality, "
    \o "cartoon, 3d render, wrong bike type, illustration"

\* variant: the intensity is chosen from what the image shows
generate_mask_from_image_by_content(files, base_image_path, part_type, intensity) ==
    IF ~files[base_image_path].exists
    THEN Err("ImageIOError")
    ELSE create_part_mask(files[base_image_path].width,
                          files[base_image_path].height, part_type,
                          IF files[base_image_path].content = "photo"
                          THEN intensity ELSE "Aggressive")

\* variant: an image that cannot be opened is treated as an empty canvas
generate_mask_from_image_lenient(files, base_image_path, part_type, intensity) ==
    IF ~files[base_image_path].exists
    THEN create_part_mask(0, 0, part_type, intensity)
    ELSE create_part_mask(files[base_image_path].width,
                          files[base_image_path].height, part_type, intensity)

\* MaskGenerator::generate_mask_from_image: image::open(path)?, then the
\* rasterizer on the decoded dimensions
generate_mask_from_image(files, base_image_path, part_type, intensity) ==
    IF ~files[base_image_path].exists
    THEN Err("ImageIOError")
    ELSE create_part_mask(files[base_image_path].width,
                          files[base_image_path].height, part_type, intensity)

\* BedrockImageGenerator::encode_image: fs::read(path)?
encode_image(files, image_path) ==
    IF files[image_path].exists THEN Ok(files[image_path]) ELSE Err("ReadError")

(***************************************************************************)
(* src/custom/motorcycle.rs: MotorcycleCustomizer::visualize_custom_part   *)
(***************************************************************************)
\* where control goes when visualize_custom_part returns: to the caller of
\* a single call, or to the match in the loop of generate_options
AfterReturn(o) == IF o = "visualize" THEN "done" ELSE "match"

\* lines 56-66: entry, generate_mask_from_image(...)? and to_rgb_mask
VisualizeEnter(c, o, base, part, bike, desc, intensity) ==
    LET r  == generate_mask_from_image(fs, base, part, intensity)
        fr == [NoFrame EXCEPT !.base = base, !.part = part, !.bike = bike,
                              !.desc = desc, !.intensity = intensity]
        dec == IF fs[base].exists THEN "ok" ELSE "fail"
        ras == IF ~fs[base].exists THEN "none" ELSE IF r.ok THEN "ok" ELSE "fail"
    IN  /\ steps' = [steps EXCEPT ![c] = [NoSteps EXCEPT !.decode = dec, !.raster = ras]]
        /\ IF r.ok
           THEN /\ frame' = [frame EXCEPT ![c] = [fr EXCEPT !.gray = r.val]]
                /\ ret' = [ret EXCEPT ![c] = Pending]
                /\ pc' = [pc EXCEPT ![c] = "save"]
           ELSE /\ frame' = [frame EXCEPT ![c] = fr]
                /\ ret' = [ret EXCEPT ![c] = r]
                /\ pc' = [pc EXCEPT ![c] = AfterReturn(o)]

\* a caller invokes visualize_custom_part directly
StartVisualize(c) ==
    /\ pc[c] \in {"idle", "done"}
    /\ started < MaxRequests
    /\ \E base \in BasePaths, part \in PartType, intensity \in MaskIntensity :
          VisualizeEnter(c, "visualize", base, part, Descriptions[part].bike,
                         Descriptions[part].desc, intensity)
    /\ op' = [op EXCEPT ![c] = "visualize"]
    /\ started' = started + 1
    /\ UNCHANGED <<fs, batch, bret, inflight, maskVars, wsVars>>

\* variant: a file already at the path is kept as it is
save_image_keep_existing(files, path, rgb) ==
    IF files[path].exists THEN files ELSE [files EXCEPT ![path] = MaskFile(rgb)]

\* the file system after rgb_mask.save(&mask_path) has succeeded: the file
\* is created, or replaced if there is one
save_image(files, path, rgb) == [files EXCEPT ![path] = MaskFile(rgb)]

\* lines 67-68: rgb_mask.save(&mask_path)?
SaveMask(c) ==
    /\ pc[c] = "save"
    /\ LET mask_path == MaskPath(frame[c].part)
           rgb_mask  == to_rgb_mask(frame[c].gray)
       IN  \E saved \in BOOLEAN :
             IF saved
             THEN /\ fs' = save_image(fs, mask_path, rgb_mask)
                  /\ frame' = [frame EXCEPT ![c].mask_path = mask_path]
                  /\ steps' = [steps EXCEPT ![c].save = "ok"]
                  /\ pc' = [pc EXCEPT ![c] = "send"]
                  /\ UNCHANGED ret
             ELSE /\ frame' = [frame EXCEPT ![c].mask_path = mask_path]
                  /\ steps' = [steps EXCEPT ![c].save = "fail"]
                  /\ ret' = [ret EXCEPT ![c] = Err("SaveError")]
                  /\ pc' = [pc EXCEPT ![c] = AfterReturn(op[c])]
                  /\ UNCHANGED fs
    /\ UNCHANGED <<op, batch, bret, inflight, started, maskVars, wsVars>>

\* variant: inpaint removes the mask file as soon as it has read it
inpaint_files_consumed(files, mask_path) == [files EXCEPT ![mask_path] = NoFile]

\* the file system after inpaint has read the base image and the mask:
\* encode_image only reads, no file is written or removed
inpaint_files(files, mask_path) == files

\* lines 71-98 and bedrock.rs 146-182: the prompts are built, inpaint reads
\* the two files and sends the request; either read failing ends the call
InpaintSend(c) ==
    /\ pc[c] = "send"
    /\ LET f   == frame[c]
           pos == prompt(f.bike, part_name(f.part), f.desc)
           neg == negative_prompt
           base_image == encode_image(fs, f.base)
           mask_image == encode_image(fs, f.mask_path)
       IN  /\ steps' = [steps EXCEPT ![c].sends = @ + 1, ![c].prompt = pos,
                                     ![c].negative = neg,
                                     ![c].inpaint = IF base_image.ok /\ mask_image.ok
                                                    THEN "sent" ELSE "fail",
                                     ![c].mask_sent = IF base_image.ok /\ mask_image.ok
                                                      THEN mask_image.val ELSE NoFile]
           /\ fs' = IF base_image.ok /\ mask_image.ok
                    THEN inpaint_files(fs, f.mask_path) ELSE fs
           /\ IF base_image.ok /\ mask_image.ok
              THEN /\ inflight' = inflight \cup
                         {[caller |-> c, intensity |-> f.intensity,
                           init_image |-> base_image.val,
                           mask_image |-> mask_image.val,
                           prompt |-> pos, negative |-> neg]}
                   /\ pc' = [pc EXCEPT ![c] = "wait"]
                   /\ UNCHANGED ret
              ELSE /\ ret' = [ret EXCEPT ![c] = Err("ReadError")]
                   /\ pc' = [pc EXCEPT ![c] = AfterReturn(op[c])]
                   /\ UNCHANGED inflight
    /\ UNCHANGED <<op, frame, batch, bret, started, maskVars, wsVars>>

\* bedrock.rs 186-208 and motorcycle.rs 98: Bedrock answers, `.await?`
InpaintRecv(c) ==
    /\ pc[c] = "wait"
    /\ \E r \in inflight :
         /\ r.caller = c
         /\ inflight' = inflight \ {r}
         /\ \E answer \in {Err("ServiceError"), Ok(ServiceBytes(r))} :
              IF answer.ok
              THEN /\ frame' = [frame EXCEPT ![c].result = answer.val]
                   /\ steps' = [steps EXCEPT ![c].inpaint = "ok", ![c].resp = answer.val]
                   /\ pc' = [pc EXCEPT ![c] = "cleanup"]
                   /\ UNCHANGED ret
              ELSE /\ steps' = [steps EXCEPT ![c].inpaint = "fail"]
                   /\ ret' = [ret EXCEPT ![c] = answer]
                   /\ pc' = [pc EXCEPT ![c] = AfterReturn(op[c])]
                   /\ UNCHANGED frame
    /\ UNCHANGED <<fs, op, batch, bret, started, maskVars, wsVars>>

\* variant: the bytes are dropped and an empty vector is returned
CleanupReturnEmpty(result, removed) == Ok("")

\* variant: fs::remove_file(&mask_path)? propagates a failed removal
CleanupReturnStrict(result, removed) ==
    IF removed THEN Ok(result) ELSE Err("RemoveError")

\* value of visualize_custom_part after the cleanup; the outcome of
\* fs::remove_file is discarded by `let _ =`
CleanupReturn(result, removed) == Ok(result)

\* lines 100-104: let _ = fs::remove_file(&mask_path); Ok(result)
Cleanup(c) ==
    /\ pc[c] = "cleanup"
    /\ \E removed \in BOOLEAN :
         /\ removed => fs[frame[c].mask_path].exists
         /\ fs' = IF removed THEN [fs EXCEPT ![frame[c].mask_path] = NoFile] ELSE fs
         /\ steps' = [steps EXCEPT ![c].rm = IF removed THEN "ok" ELSE "fail"]
         /\ ret' = [ret EXCEPT ![c] = CleanupReturn(frame[c].result, removed)]
    /\ pc' = [pc EXCEPT ![c] = AfterReturn(op[c])]
    /\ UNCHANGED <<op, frame, batch, bret, inflight, started, maskVars, wsVars>>

(***************************************************************************)
(* src/custom/motorcycle.rs: MotorcycleCustomizer::generate_options        *)
(***************************************************************************)
\* lines 108-121: entry, results = Vec::new()
StartOptions(c) ==
    /\ pc[c] \in {"idle", "done"}
    /\ started < MaxBatches
    /\ \E base \in BasePaths, part \in PartType :
          frame' = [frame EXCEPT ![c] = [NoFrame EXCEPT !.base = base, !.part = part,
                                                        !.bike = Descriptions[part].bike,
                                                        !.desc = Descriptions[part].desc]]
    /\ op' = [op EXCEPT ![c] = "options"]
    /\ batch' = [batch EXCEPT ![c] = [NoBatch EXCEPT !.i = 1]]
    /\ bret' = [bret EXCEPT ![c] = Pending]
    /\ ret' = [ret EXCEPT ![c] = Pending]
    /\ steps' = [steps EXCEPT ![c] = NoSteps]
    /\ pc' = [pc EXCEPT ![c] = "loop"]
    /\ started' = started + 1
    /\ UNCHANGED <<fs, inflight, maskVars, wsVars>>

\* lines 123-132: the loop takes the next intensity and calls
\* visualize_custom_part with it
BatchNext(c) ==
    /\ pc[c] = "loop"
    /\ batch[c].i <= Len(intensities)
    /\ LET intensity == intensities[batch[c].i]
       IN  /\ VisualizeEnter(c, "options", frame[c].base, frame[c].part,
                             frame[c].bike, frame[c].desc, intensity)
           /\ batch' = [batch EXCEPT ![c].attempts = Append(@, intensity)]
    /\ UNCHANGED <<fs, op, bret, inflight, started, maskVars, wsVars>>

\* variant: the loop goes on while the request is still in flight
AwaitDoneOrInFlight(c) == pc[c] \in {"match", "wait"}

\* the call of this iteration has returned (`.await` at line 132)
AwaitDone(c) == pc[c] = "match"

\* variant: a new result is put in front of the earlier ones
MatchResultsPrepend(results, intensity, r) ==
    IF r.ok THEN <<(<<intensity, r.val>>)>> \o results ELSE results

\* results after the match at lines 132-139: pushed on Ok, only logged on Err
MatchResults(results, intensity, r) ==
    IF r.ok THEN Append(results, <<intensity, r.val>>) ELSE results

\* variant: a failed intensity is tried again
NextIndexRetryOnErr(i, r) == IF r.ok THEN i + 1 ELSE i

\* variant: the first failure leaves the loop (the call propagated with `?`)
NextIndexAbortOnErr(i, r) == IF r.ok THEN i + 1 ELSE Len(intensities) + 1

\* the for loop goes on to the next intensity after either match arm
NextIndex(i, r) == i + 1

\* lines 132-140: match on the returned value, then the next iteration
BatchMatch(c) ==
    /\ op[c] = "options"
    /\ AwaitDone(c)
    /\ batch[c].i <= Len(intensities)
    /\ batch' = [batch EXCEPT
                   ![c].results = MatchResults(@, intensities[batch[c].i], ret[c]),
                   ![c].outcomes = Append(@, ret[c]),
                   ![c].sends = Append(@, steps[c].sends),
                   ![c].i = NextIndex(@, ret[c])]
    /\ pc' = [pc EXCEPT ![c] = "loop"]
    /\ UNCHANGED <<fs, op, frame, ret, bret, inflight, steps, started, maskVars, wsVars>>

\* line 142: Ok(results)
BatchReturn(c) ==
    /\ pc[c] = "loop"
    /\ batch[c].i > Len(intensities)
    /\ bret' = [bret EXCEPT ![c] = Ok(batch[c].results)]
    /\ pc' = [pc EXCEPT ![c] = "done"]
    /\ UNCHANGED <<fs, op, frame, ret, batch, inflight, steps, started, maskVars, wsVars>>

(***************************************************************************)
(* src/main.rs: handle_socket, the status loop of one WebSocket            *)
(* connection, with the task at Meshy and the client as its environment.   *)
(***************************************************************************)
\* the statuses a task goes through; the status field is whatever string
\* the Meshy API reports, and a task can end without succeeding or failing
TaskStatuses == {"PENDING", "IN_PROGRESS", "SUCCEEDED", "FAILED", "CANCELED"}
FinalStatuses == {"SUCCEEDED", "FAILED", "CANCELED"}

Task(status, progress, has_model) ==
    [status |-> status, progress |-> progress, has_model |-> has_model]

\* the states of the task: a model exists once it has succeeded
TaskStates ==
    {Task("PENDING", 0, FALSE), Task("IN_PROGRESS", 0, FALSE),
     Task("IN_PROGRESS", 50, FALSE), Task("SUCCEEDED", 100, TRUE),
     Task("FAILED", 50, FALSE), Task("CANCELED", 50, FALSE)}

\* the task moves on at Meshy; a final status stays
TaskSuccessors(t) ==
    CASE t.status = "PENDING"     -> {Task("IN_PROGRESS", 0, FALSE), Task("CANCELED", 50, FALSE)}
      [] t.status = "IN_PROGRESS" ->
            IF t.progress = 0
            THEN {Task("IN_PROGRESS", 50, FALSE), Task("FAILED", 50, FALSE)}
            ELSE {Task("SUCCEEDED", 100, TRUE), Task("FAILED", 50, FALSE),
                  Task("CANCELED", 50, FALSE)}
      [] OTHER -> {}

\* MeshyClient::get_task_status: Err when the request fails or the answer
\* is not a success, else the status, the progress and the glb url
get_task_status(t, answered) ==
    IF answered
    THEN Ok([status |-> t.status, progress |-> t.progress, model_url |-> t.has_model])
    ELSE Err("StatusError")

NoMessage == [kind |-> "none", status |-> "", progress |-> 0, model_url |-> FALSE]
\* serde_json::to_string(&status) as a text message
StatusMessage(status) ==
    [kind |-> "status", status |-> status.status, progress |-> status.progress,
     model_url |-> status.model_url]
\* json!({"error": "Failed to get status", "details": ...})
ErrorMessage == [kind |-> "error", status |-> "", progress |-> 0, model_url |-> FALSE]

NoLog == [fetch_failed |-> FALSE, send_failed |-> FALSE, final_sent |-> FALSE,
          unsent |-> 0]

\* variant: only SUCCEEDED ends the loop
IsFinishedSucceededOnly(status) == status.status = "SUCCEEDED"

\* status.status == "SUCCEEDED" || status.status == "FAILED"
IsFinished(status) == status.status = "SUCCEEDED" \/ status.status = "FAILED"

\* ws_polls after one more poll
CountPoll(n) == IF n < MaxPolls THEN n + 1 ELSE n

InitSocketIdle ==
    /\ task = Task("PENDING", 0, FALSE)
    /\ client = "open"
    /\ ws_pc = "closed"
    /\ ws_status = Pending
    /\ ws_sent = NoMessage
    /\ ws_polls = 0
    /\ ws_log = NoLog

\* top of the loop: state.meshy_client.get_task_status(&task_id).await
HandleSocketPoll ==
    /\ ws_pc = "poll"
    /\ \E answered \in BOOLEAN :
         LET r == get_task_status(task, answered)
         IN  /\ ws_status' = r
             /\ ws_pc' = IF r.ok THEN "send" ELSE "senderr"
             /\ ws_log' = IF r.ok THEN [ws_log EXCEPT !.unsent = @ + 1]
                          ELSE [ws_log EXCEPT !.fetch_failed = TRUE]
    /\ ws_polls' = CountPoll(ws_polls)
    /\ UNCHANGED <<task, client, ws_sent, pipeVars, maskVars>>

\* the Ok arm: the status is sent; a failed send or a finished task leaves
\* the loop, otherwise the loop sleeps
HandleSocketSend ==
    /\ ws_pc = "send"
    /\ IF client = "open"
       THEN /\ ws_sent' = StatusMessage(ws_status.val)
            /\ ws_log' = [ws_log EXCEPT
                            !.unsent = @ - 1,
                            !.final_sent = @ \/ ws_status.val.status \in {"SUCCEEDED", "FAILED"}]
            /\ ws_pc' = IF IsFinished(ws_status.val) THEN "closed" ELSE "sleep"
       ELSE /\ ws_log' = [ws_log EXCEPT !.send_failed = TRUE]
            /\ ws_pc' = "closed"
            /\ UNCHANGED ws_sent
    /\ UNCHANGED <<task, client, ws_status, ws_polls, pipeVars, maskVars>>

\* the Err arm: the error message is sent if the client is there, and the
\* loop is left either way
HandleSocketSendError ==
    /\ ws_pc = "senderr"
    /\ ws_sent' = IF client = "open" THEN ErrorMessage ELSE ws_sent
    /\ ws_log' = IF client = "open" THEN ws_log ELSE [ws_log EXCEPT !.send_failed = TRUE]
    /\ ws_pc' = "closed"
    /\ UNCHANGED <<task, client, ws_status, ws_polls, pipeVars, maskVars>>

\* sleep(Duration::from_secs(5)).await, then the next iteration
HandleSocketSleep ==
    /\ ws_pc = "sleep"
    /\ ws_pc' = "poll"
    /\ UNCHANGED <<task, client, ws_status, ws_sent, ws_polls, ws_log, pipeVars, maskVars>>

\* the task moves on at Meshy
TaskAdvance ==
    /\ \E t \in TaskSuccessors(task) : task' = t
    /\ UNCHANGED <<client, ws_pc, ws_status, ws_sent, ws_polls, ws_log, pipeVars, maskVars>>

\* the client goes away while the loop runs
ClientDisconnect ==
    /\ client = "open"
    /\ ws_pc # "closed"
    /\ client' = "gone"
    /\ UNCHANGED <<task, ws_pc, ws_status, ws_sent, ws_polls, ws_log, pipeVars, maskVars>>

(***************************************************************************)
(* The pipeline: callers running single and batched visualizations.        *)
(***************************************************************************)
InitFiles ==
    [p \in Paths |-> IF p = "base.jpg" THEN PhotoFile(640, 480, "photo") ELSE NoFile]

InitMaskIdle ==
    /\ mk_pc = "call"
    /\ mk_in = [width |-> 0, height |-> 0, part_type |-> "Exhaust", intensity |-> "Minimal"]
    /\ mk_out = Pending
    /\ mk_rgb = NoRgb

InitCallersIdle ==
    /\ pc = [c \in Callers |-> "idle"]
    /\ op = [c \in Callers |-> "none"]
    /\ frame = [c \in Callers |-> NoFrame]
    /\ ret = [c \in Callers |-> Pending]
    /\ batch = [c \in Callers |-> NoBatch]
    /\ bret = [c \in Callers |-> Pending]
    /\ inflight = {}
    /\ steps = [c \in Callers |-> NoSteps]
    /\ started = 0

InitPipeIdle ==
    /\ fs = InitFiles
    /\ InitCallersIdle
    /\ InitSocketIdle

Init == InitPipeIdle /\ InitMaskIdle

\* concurrent callers of visualize_custom_part
Next ==
    \E c \in Callers :
       \/ StartVisualize(c)
       \/ SaveMask(c)
       \/ InpaintSend(c)
       \/ InpaintRecv(c)
       \/ Cleanup(c)

Spec == Init /\ [][Next]_vars

\* one caller running generate_options
BatchCaller == 1

NextBatch ==
    \/ StartOptions(BatchCaller)
    \/ BatchNext(BatchCaller)
    \/ SaveMask(BatchCaller)
    \/ InpaintSend(BatchCaller)
    \/ InpaintRecv(BatchCaller)
    \/ Cleanup(BatchCaller)
    \/ BatchMatch(BatchCaller)
    \/ BatchReturn(BatchCaller)

SpecBatch == Init /\ [][NextBatch]_vars

(***************************************************************************)
(* One WebSocket connection running handle_socket.                         *)
(***************************************************************************)
\* a client has connected for a task in any state: handle_socket starts
InitSocket ==
    /\ fs = InitFiles
    /\ InitCallersIdle
    /\ InitMaskIdle
    /\ task \in TaskStates
    /\ client = "open"
    /\ ws_pc = "poll"
    /\ ws_status = Pending
    /\ ws_sent = NoMessage
    /\ ws_polls = 0
    /\ ws_log = NoLog

HandleSocketStep ==
    \/ HandleSocketPoll
    \/ HandleSocketSend
    \/ HandleSocketSendError
    \/ HandleSocketSleep

NextSocket ==
    \/ HandleSocketStep
    \/ TaskAdvance
    \/ ClientDisconnect

SpecSocket == InitSocket /\ [][NextSocket]_vars

\* every await of handle_socket returns: the status request is answered or
\* fails, a send succeeds or fails, the sleep ends
SpecSocketFair == SpecSocket /\ WF_vars(HandleSocketStep)

(***************************************************************************)
(* One caller of visualize_custom_part whose base path may be any path,    *)
(* that of a temporary mask file included.                                 *)
(***************************************************************************)
FrameCaller == 1

\* base_motorcycle_path is any &str: the paths of the photographs and of the
\* mask files
AnyBasePaths == BasePaths \cup {MaskPath(p) : p \in PartType}

\* a mask file an earlier run of the program wrote and did not remove
LeftoverMask == MaskFile(to_rgb_mask(create_part_mask(640, 480, "Seat", "Minimal").val))

InitFrame ==
    /\ InitCallersIdle
    /\ InitSocketIdle
    /\ InitMaskIdle
    /\ fs \in {InitFiles, [InitFiles EXCEPT ![MaskPath("Seat")] = LeftoverMask]}

\* the caller invokes visualize_custom_part with any base path
StartVisualizeAnyBase(c) ==
    /\ pc[c] \in {"idle", "done"}
    /\ started < MaxRequests
    /\ \E base \in AnyBasePaths, part \in PartType, intensity \in MaskIntensity :
          VisualizeEnter(c, "visualize", base, part, Descriptions[part].bike,
                         Descriptions[part].desc, intensity)
    /\ op' = [op EXCEPT ![c] = "visualize"]
    /\ started' = started + 1
    /\ UNCHANGED <<fs, batch, bret, inflight, maskVars, wsVars>>

NextFrame ==
    \/ StartVisualizeAnyBase(FrameCaller)
    \/ SaveMask(FrameCaller)
    \/ InpaintSend(FrameCaller)
    \/ InpaintRecv(FrameCaller)
    \/ Cleanup(FrameCaller)

SpecFrame == InitFrame /\ [][NextFrame]_vars

(***************************************************************************)
(* The rasterizer alone: create_part_mask applied to arbitrary arguments.  *)
(***************************************************************************)
\* canvas sides beyond the enumerated range: a side where single precision
\* falls short of the exact product, and the side of the documented scenario
ExtraDims == {180, 1024}
Dims == (0 .. MaxDim) \cup ExtraDims

InitMask ==
    /\ InitPipeIdle
    /\ mk_pc = "call"
    /\ mk_in \in [width : Dims, height : Dims, part_type : PartType,
                  intensity : MaskIntensity]
    /\ mk_out = Pending
    /\ mk_rgb = NoRgb

\* MaskGenerator::create_part_mask(image_width, image_height, part_type, intensity)
CallCreatePartMask ==
    /\ mk_pc = "call"
    /\ mk_out' = create_part_mask(mk_in.width, mk_in.height, mk_in.part_type,
                                  mk_in.intensity)
    /\ mk_pc' = "ret"
    /\ UNCHANGED <<mk_in, mk_rgb, pipeVars, wsVars>>

NextMask == CallCreatePartMask

SpecMask == InitMask /\ [][NextMask]_vars

(***************************************************************************)
(* The mask functions applied to one canvas size: generate_mask_from_image *)
(* on a base image of that size, create_custom_mask on a canvas of that    *)
(* size, and to_rgb_mask on the mask obtained.                             *)
(***************************************************************************)
\* the fractions 0.0, 0.25, 0.5 and 1.0 as region arguments
RegionFractions == {F32Zero, f32_0_25, f32_0_5, f32_1_0}
\* feather radii: no feathering, and a blur of two pixels
FeatherRadii == {0, 2}

\* the base image has the canvas size under study, and so has a second
\* photograph of other content; no image file has an empty canvas, so for
\* such a size neither file exists
InitRaster ==
    /\ InitCallersIdle
    /\ InitSocketIdle
    /\ \E w \in 0 .. MaxDim, h \in 0 .. MaxDim :
          /\ mk_in = [fn |-> "none", width |-> w, height |-> h]
          /\ fs = [InitFiles EXCEPT
                     !["base.jpg"] =
                        IF w > 0 /\ h > 0 THEN PhotoFile(w, h, "photo") ELSE NoFile,
                     ![OtherPhoto] =
                        IF w > 0 /\ h > 0 THEN PhotoFile(w, h, "another photo") ELSE NoFile]
    /\ mk_pc = "call"
    /\ mk_out = Pending
    /\ mk_rgb = NoRgb

\* MaskGenerator::generate_mask_from_image(base_image_path, part_type, intensity)
CallGenerateMaskFromImage ==
    /\ mk_pc = "call"
    /\ \E path \in BasePaths \cup {OtherPhoto}, part_type \in PartType,
          intensity \in MaskIntensity :
          /\ mk_in' = [fn |-> "generate_mask_from_image", width |-> mk_in.width,
                       height |-> mk_in.height, path |-> path,
                       part_type |-> part_type, intensity |-> intensity]
          /\ mk_out' = generate_mask_from_image(fs, path, part_type, intensity)
    /\ mk_pc' = "ret"
    /\ UNCHANGED <<mk_rgb, pipeVars, wsVars>>

\* MaskGenerator::create_custom_mask(image_width, image_height, region_x,
\* region_y, region_width, region_height, feather_radius)
CallCreateCustomMask ==
    /\ mk_pc = "call"
    /\ \E rx \in RegionFractions, ry \in RegionFractions,
          rw \in RegionFractions, rh \in RegionFractions, f \in FeatherRadii :
          /\ mk_in' = [fn |-> "create_custom_mask", width |-> mk_in.width,
                       height |-> mk_in.height, region_x |-> rx, region_y |-> ry,
                       region_width |-> rw, region_height |-> rh,
                       feather_radius |-> f]
          /\ mk_out' = create_custom_mask(mk_in.width, mk_in.height, rx, ry, rw, rh, f)
    /\ mk_pc' = "ret"
    /\ UNCHANGED <<mk_rgb, pipeVars, wsVars>>

\* MaskGenerator::to_rgb_mask(&mask) on the mask a call returned
CallToRgbMask ==
    /\ mk_pc = "ret"
    /\ mk_out.ok
    /\ mk_rgb' = to_rgb_mask(mk_out.val)
    /\ mk_pc' = "rgb"
    /\ UNCHANGED <<mk_in, mk_out, pipeVars, wsVars>>

NextRaster ==
    \/ CallGenerateMaskFromImage
    \/ CallCreateCustomMask
    \/ CallToRgbMask

SpecRaster == InitRaster /\ [][NextRaster]_vars

(***************************************************************************)
(* Properties                                                              *)
(***************************************************************************)
\* a visualize_custom_part call of caller c has returned to its caller
Returned(c) == op[c] = "visualize" /\ pc[c] = "done"

\* C1: whenever a visualize call returns, with success or with a failure,
\* the temporary mask file it wrote no longer exists.
C1_ArtifactGoneAtReturn ==
    [][\A c \in Callers :
          (pc[c] # "done" /\ pc'[c] = "done" /\ steps'[c].save = "ok")
          => ~fs'[frame'[c].mask_path].exists]_vars

\* C2: generate_options always returns exactly three entries, one per
\* intensity in the order Minimal, Medium, Aggressive, whatever attempts fail.
C2_AlwaysThreeEntries ==
    (pc[BatchCaller] = "done" /\ bret[BatchCaller].ok)
    => /\ Len(bret[BatchCaller].val) = 3
       /\ \A k \in 1 .. 3 : bret[BatchCaller].val[k][1] = intensities[k]

\* C3: in generate_options the intensities are attempted in the order
\* Minimal, Medium, Aggressive and a failed attempt does not end the batch:
\* when the batch returns, all three have been attempted.
C3_AllIntensitiesAttempted ==
    LET b == batch[BatchCaller]
    IN  /\ Len(b.attempts) <= Len(intensities)
        /\ \A k \in 1 .. Len(b.attempts) : b.attempts[k] = intensities[k]
        /\ (op[BatchCaller] = "options" /\ pc[BatchCaller] = "done")
           => /\ b.attempts = <<"Minimal", "Medium", "Aggressive">>
              /\ Len(b.outcomes) = 3

\* a finished batch whose first two attempts failed
C3_Witness ==
    /\ op[BatchCaller] = "options" /\ pc[BatchCaller] = "done"
    /\ Len(batch[BatchCaller].outcomes) = 3
    /\ ~batch[BatchCaller].outcomes[1].ok
    /\ ~batch[BatchCaller].outcomes[2].ok
    /\ batch[BatchCaller].outcomes[3].ok
    /\ batch[BatchCaller].attempts = intensities

\* C4: when decoding, mask creation and the inpainting call all succeed,
\* visualize returns exactly the bytes the service answered that call with.
C4_ReturnsServiceBytes ==
    \A c \in Callers :
       (Returned(c) /\ steps[c].decode = "ok" /\ steps[c].raster = "ok"
          /\ steps[c].save = "ok" /\ steps[c].inpaint = "ok")
       => /\ ret[c].ok
          /\ ret[c].val = steps[c].resp
          /\ ret[c].val = ServiceBytes([caller |-> c, intensity |-> frame[c].intensity])

\* both callers have returned successfully, each with its own answer
C4_Witness ==
    /\ Returned(1) /\ ret[1].ok /\ steps[1].inpaint = "ok"
    /\ Returned(2) /\ ret[2].ok /\ steps[2].inpaint = "ok"
    /\ ret[1].val # ret[2].val

\* the part names and the prompt texts as the specification gives them
SpecPartName == [Exhaust |-> "exhaust system", Seat |-> "seat", Handlebar |-> "handlebars"]

SpecPositivePrompt(bike, part, desc) ==
    bike \o " style motorcycle with custom " \o SpecPartName[part] \o " installed, " \o desc \o ", seamlessly integrated aftermarket part, maintaining original frame geometry and proportions, professional product photography, photorealistic, high detail, studio lighting, 8k"

SpecNegativePrompt ==
    "different motorcycle model, changed body style, distorted proportions, unrealistic, blurry, low quality, cartoon, 3d render, wrong bike type, illustration"

\* C5: every inpainting invocation made by visualize carries the positive
\* prompt of the fixed template, with the part name exhaust system / seat /
\* handlebars and both descriptions unchanged, and the one fixed negative
\* prompt.
C5_PromptsOfEveryInvocation ==
    /\ \A r \in inflight :
          /\ r.prompt = SpecPositivePrompt(frame[r.caller].bike, frame[r.caller].part,
                                           frame[r.caller].desc)
          /\ r.negative = SpecNegativePrompt
    /\ \A c \in Callers :
          steps[c].sends > 0
          => /\ steps[c].prompt = SpecPositivePrompt(frame[c].bike, frame[c].part,
                                                     frame[c].desc)
             /\ steps[c].negative = SpecNegativePrompt

\* two requests in flight, for handlebars and for an exhaust, with
\* different bike descriptions
C5_Witness ==
    \E r1, r2 \in inflight :
       /\ frame[r1.caller].part = "Handlebar"
       /\ frame[r2.caller].part = "Exhaust"
       /\ frame[r1.caller].bike # frame[r2.caller].bike

\* C6: a visualize call returns success only if decoding, rasterization,
\* saving and the inpainting call all succeeded; a failure of one of them
\* is returned as that step's error.
C6_FailuresPropagate ==
    \A c \in Callers :
       Returned(c)
       => /\ ret[c].ok <=> (steps[c].decode = "ok" /\ steps[c].raster = "ok"
                              /\ steps[c].save = "ok" /\ steps[c].inpaint = "ok")
          /\ steps[c].decode = "fail" => (~ret[c].ok /\ ret[c].err = "ImageIOError")
          /\ steps[c].raster = "fail" => ~ret[c].ok
          /\ steps[c].save = "fail" => (~ret[c].ok /\ ret[c].err = "SaveError")
          /\ steps[c].inpaint = "fail"
             => (~ret[c].ok /\ ret[c].err \in {"ServiceError", "ReadError"})

\* one call has failed in the service, the other at decoding
C6_Witness ==
    /\ Returned(1) /\ steps[1].inpaint = "fail" /\ ret[1] = Err("ServiceError")
    /\ Returned(2) /\ steps[2].decode = "fail" /\ ret[2] = Err("ImageIOError")

\* C7: when the inpainting call succeeded and the temporary file could not
\* be deleted, visualize still returns the synthesized bytes as success.
C7_CleanupFailureIgnored ==
    \A c \in Callers :
       (Returned(c) /\ steps[c].inpaint = "ok" /\ steps[c].rm = "fail")
       => (ret[c].ok /\ ret[c].val = steps[c].resp)

\* a call has returned after a failed deletion, the file still in place
C7_Witness ==
    \E c \in Callers :
       /\ Returned(c) /\ steps[c].inpaint = "ok" /\ steps[c].rm = "fail"
       /\ fs[frame[c].mask_path].exists

\* C8: generate_options runs its intensities one after the other: at most
\* one inpainting request of the batch is in flight, it belongs to the
\* latest attempt, and every earlier attempt has completed.
C8_BatchSequential ==
    LET b    == batch[BatchCaller]
        mine == {r \in inflight : r.caller = BatchCaller}
    IN  /\ Cardinality(mine) <= 1
        /\ Len(b.attempts) - Len(b.outcomes) \in {0, 1}
        /\ \A r \in mine :
              /\ Len(b.attempts) >= 1
              /\ r.intensity = b.attempts[Len(b.attempts)]
              /\ Len(b.outcomes) = Len(b.attempts) - 1

\* the Aggressive request is in flight after a failed and a successful attempt
C8_Witness ==
    /\ \E r \in inflight : r.caller = BatchCaller /\ r.intensity = "Aggressive"
    /\ Len(batch[BatchCaller].outcomes) = 2
    /\ ~batch[BatchCaller].outcomes[1].ok
    /\ batch[BatchCaller].outcomes[2].ok

\* C9: create_part_mask fails with a GeometryError when width or height is
\* zero and succeeds for every width >= 1 and height >= 1.
C9_ZeroSizeFails ==
    mk_pc = "ret"
    => IF mk_in.width = 0 \/ mk_in.height = 0
       THEN ~mk_out.ok /\ mk_out.err = "GeometryError"
       ELSE mk_out.ok

\* the region templates (hundredths) and the intensity scales (tenths) as
\* the specification tabulates them
RegionTemplate ==
    [Exhaust   |-> [centerX |-> 50, centerY |-> 65, radiusX |-> 35, radiusY |-> 25],
     Seat      |-> [centerX |-> 50, centerY |-> 45, radiusX |-> 15, radiusY |-> 12],
     Handlebar |-> [centerX |-> 40, centerY |-> 25, radiusX |-> 20, radiusY |-> 12]]

IntensityScale == [Minimal |-> 8, Medium |-> 10, Aggressive |-> 12]

\* C10 as stated: the drawn centre and radii are the pixels of the exact
\* products centerX*width, centerY*height, radiusX*width*scale and
\* radiusY*height*scale.
C10_ExactProducts ==
    mk_pc = "ret"
    => LET t == RegionTemplate[mk_in.part_type]
           k == IntensityScale[mk_in.intensity]
           e == mk_out.val.ellipse
       IN  /\ e.x = (t.centerX * mk_in.width) \div 100
           /\ e.y = (t.centerY * mk_in.height) \div 100
           /\ e.width = (t.radiusX * k * mk_in.width) \div 1000
           /\ e.height = (t.radiusY * k * mk_in.height) \div 1000

\* v is the integer part of num/den, or one less when num/den is whole
FloorOrOneBelow(v, num, den) ==
    \/ v = num \div den
    \/ (num % den = 0 /\ v = (num \div den) - 1)

\* C10 amended: the drawn centre and radii are the tabulated products
\* evaluated in single precision, left to right, and truncated toward zero;
\* each is the integer part of the exact product, or one less where the
\* exact product is a whole number.
C10_SinglePrecisionProducts ==
    mk_pc = "ret"
    => LET t == RegionTemplate[mk_in.part_type]
           k == IntensityScale[mk_in.intensity]
           e == mk_out.val.ellipse
           w == U32ToF32(mk_in.width)
           h == U32ToF32(mk_in.height)
       IN  /\ e.x = F32ToI32(F32Mul(w, F32Lit(t.centerX, 100)))
           /\ e.y = F32ToI32(F32Mul(h, F32Lit(t.centerY, 100)))
           /\ e.width = F32ToI32(F32Mul(F32Mul(w, F32Lit(t.radiusX, 100)), F32Lit(k, 10)))
           /\ e.height = F32ToI32(F32Mul(F32Mul(h, F32Lit(t.radiusY, 100)), F32Lit(k, 10)))
           /\ FloorOrOneBelow(e.x, t.centerX * mk_in.width, 100)
           /\ FloorOrOneBelow(e.y, t.centerY * mk_in.height, 100)
           /\ FloorOrOneBelow(e.width, t.radiusX * k * mk_in.width, 1000)
           /\ FloorOrOneBelow(e.height, t.radiusY * k * mk_in.height, 1000)

\* Exhaust on a canvas 180 high: 0.65 * 180 = 117 exactly, the centre is
\* drawn at y = 116
C10_Witness ==
    /\ mk_pc = "ret"
    /\ mk_in = [width |-> 1024, height |-> 180, part_type |-> "Exhaust",
                intensity |-> "Aggressive"]
    /\ mk_out.ok
    /\ mk_out.val.ellipse = [x |-> 512, y |-> 116, width |-> 430, height |-> 54]

\* the documented scenario: create_part_mask(1024, 1024, Seat, Medium)
SeatScenario ==
    /\ mk_pc = "ret"
    /\ mk_in = [width |-> 1024, height |-> 1024, part_type |-> "Seat",
                intensity |-> "Medium"]

\* C11 as stated: in the scenario the centre of the ellipse is the pixel
\* (512, 461), 460.8 being rounded to the nearest pixel.
C11_CentreRounded ==
    SeatScenario
    => (mk_out.ok /\ mk_out.val.ellipse.x = 512 /\ mk_out.val.ellipse.y = 461)

\* C11 amended: in the scenario the centre is the pixel (512, 460), 460.8
\* being truncated, and the radii are 153 and 122, the truncations of
\* 153.6 and 122.88.
C11_CentreTruncated ==
    SeatScenario
    => /\ mk_out.ok
       /\ mk_out.val.ellipse = [x |-> 512, y |-> 460, width |-> 153, height |-> 122]
       /\ mk_out.val.ellipse.x = (50 * 1024) \div 100
       /\ mk_out.val.ellipse.y = (45 * 1024) \div 100
       /\ mk_out.val.ellipse.width = (15 * 1024) \div 100
       /\ mk_out.val.ellipse.height = (12 * 1024) \div 100

\* the scenario has been rasterized
C11_Witness == SeatScenario /\ mk_out.ok /\ mk_out.val.width = 1024

\* C12: for every width >= 1, height >= 1 and category the pixel centre
\* (cx, cy) of the ellipse lies on the canvas: 0 <= cx < width and
\* 0 <= cy < height.
C12_CentreOnCanvas ==
    (mk_pc = "ret" /\ mk_in.width >= 1 /\ mk_in.height >= 1)
    => /\ mk_out.ok
       /\ 0 <= mk_out.val.ellipse.x /\ mk_out.val.ellipse.x < mk_in.width
       /\ 0 <= mk_out.val.ellipse.y /\ mk_out.val.ellipse.y < mk_in.height

\* a canvas one pixel wide and high: the centre is the pixel (0, 0)
C12_Witness ==
    /\ mk_pc = "ret" /\ mk_in.width = 1 /\ mk_in.height = 1
    /\ mk_in.part_type = "Exhaust"
    /\ mk_out.ok /\ mk_out.val.ellipse.x = 0 /\ mk_out.val.ellipse.y = 0

\* create_custom_mask has returned
CustomReturned == mk_pc # "call" /\ mk_in.fn = "create_custom_mask"
\* generate_mask_from_image has returned
FromImageReturned == mk_pc # "call" /\ mk_in.fn = "generate_mask_from_image"

\* C14: create_custom_mask with feather_radius = 0 skips the blur and
\* returns the hard mask, of the size asked for, in which every pixel is
\* 0 or 255.
C14_NoFeatherHardMask ==
    (CustomReturned /\ mk_in.feather_radius = 0)
    => /\ mk_out.ok
       /\ mk_out.val.sigma = 0
       /\ mk_out.val.width = mk_in.width /\ mk_out.val.height = mk_in.height
       /\ DOMAIN hard_pixels(mk_out.val) = CanvasPixels(mk_in.width, mk_in.height)
       /\ \A p \in CanvasPixels(mk_in.width, mk_in.height) :
             hard_pixels(mk_out.val)[p] \in {0, 255}

\* a hard mask returned without feathering that holds both values
C14_Witness ==
    /\ CustomReturned /\ mk_in.feather_radius = 0
    /\ mk_out.ok /\ mk_out.val.sigma = 0
    /\ \E p \in CanvasPixels(mk_in.width, mk_in.height) : hard_pixels(mk_out.val)[p] = 0
    /\ \E p \in CanvasPixels(mk_in.width, mk_in.height) : hard_pixels(mk_out.val)[p] = 255

\* the pixel p of px has a neighbour (a side or a corner in common) of
\* another value: p lies next to the boundary of the hard mask
NextToBoundary(px, p) ==
    \E q \in DOMAIN px :
       /\ q[1] - p[1] \in {-1, 0, 1}
       /\ q[2] - p[2] \in {-1, 0, 1}
       /\ px[q] # px[p]

C16_RgbReplicatesGray ==
    (mk_pc = "rgb")
    => /\ DOMAIN mk_rgb = {"width", "height", "r", "g", "b"}
       /\ mk_rgb.width = mk_out.val.width
       /\ mk_rgb.height = mk_out.val.height
       /\ \A ch \in {mk_rgb.r, mk_rgb.g, mk_rgb.b} :
             /\ ch = mk_out.val
             /\ (ch.sigma = 0 =>
                   /\ DOMAIN hard_pixels(ch) = CanvasPixels(mk_rgb.width, mk_rgb.height)
                   /\ \A p \in CanvasPixels(mk_rgb.width, mk_rgb.height) :
                         hard_pixels(ch)[p] = hard_pixels(mk_out.val)[p])

\* a hard mask wider than high holding both values has been converted
C16_Witness ==
    /\ mk_pc = "rgb"
    /\ mk_out.val.sigma = 0
    /\ mk_rgb.width > mk_rgb.height /\ mk_rgb.height > 1
    /\ \E p \in CanvasPixels(mk_rgb.width, mk_rgb.height) : hard_pixels(mk_rgb.g)[p] = 0
    /\ \E p \in CanvasPixels(mk_rgb.width, mk_rgb.height) : hard_pixels(mk_rgb.b)[p] = 255

\* C17: the mask generate_mask_from_image makes for a base image (the one a
\* visualize call uses, blurred) has exactly the width and height of the
\* decoded image, and so has the custom mask for the canvas it is given,
\* blurred or not: the blur never changes the dimensions.
C17_MaskHasImageDimensions ==
    /\ FromImageReturned =>
          IF fs[mk_in.path].exists
          THEN /\ mk_out.ok
               /\ mk_out.val.sigma = BlurSigma
               /\ mk_out.val.width = fs[mk_in.path].width
               /\ mk_out.val.height = fs[mk_in.path].height
          ELSE ~mk_out.ok
    /\ CustomReturned =>
          /\ mk_out.ok
          /\ mk_out.val.sigma = mk_in.feather_radius
          /\ mk_out.val.width = mk_in.width
          /\ mk_out.val.height = mk_in.height

\* the blurred mask of a base image wider than high
C17_Witness ==
    /\ FromImageReturned
    /\ mk_out.ok /\ mk_out.val.sigma = BlurSigma
    /\ fs[mk_in.path].width > fs[mk_in.path].height
    /\ mk_out.val.width = fs[mk_in.path].width
    /\ mk_out.val.height = fs[mk_in.path].height

\* the RGB mask the call of c made and saved (or tried to save)
OwnMask(c) == to_rgb_mask(frame[c].gray)

\* the inpaint of the call of c read a mask file that holds another mask
\* than the one the call made
ReadForeignMask(c) ==
    /\ steps[c].mask_sent.exists
    /\ steps[c].mask_sent.content # OwnMask(c)

\* the call of c saved its mask, and its inpaint then failed to read the
\* mask file, the base image being readable
FoundMaskDeleted(c) ==
    /\ steps[c].save = "ok" /\ steps[c].inpaint = "fail" /\ steps[c].sends = 1
    /\ fs[frame[c].base].exists
    /\ ~ret[c].ok /\ ret[c].err = "ReadError"

\* C18: calls for the same category use the same temporary path, the path
\* depending on the category alone, so a call's inpaint can read a mask
\* another call wrote (C18_Witness: one of another intensity) or find the
\* file deleted; whatever mask file an inpaint reads was written for the
\* same base image and category, at some intensity.
C18_SharedPathPerCategory ==
    /\ \A c \in Callers, d \in Callers :
          (frame[c].mask_path # "" /\ frame[d].mask_path # ""
             /\ frame[c].part = frame[d].part)
          => frame[c].mask_path = frame[d].mask_path
    /\ \A c \in Callers :
          frame[c].mask_path # "" => frame[c].mask_path = MaskPath(frame[c].part)
    /\ \A c \in Callers :
          steps[c].mask_sent.exists
          => \E i \in MaskIntensity :
                LET m == generate_mask_from_image(fs, frame[c].base, frame[c].part, i)
                IN  m.ok /\ steps[c].mask_sent.content = to_rgb_mask(m.val)

\* two calls for one category and different intensities have run
\* concurrently: the inpaint of one read the mask of the other, and the
\* other found the file already deleted
C18_Witness ==
    \E c \in Callers, d \in Callers :
       /\ c # d
       /\ op[c] = "visualize" /\ op[d] = "visualize"
       /\ frame[c].part = frame[d].part
       /\ frame[c].intensity # frame[d].intensity
       /\ ReadForeignMask(c)
       /\ steps[c].mask_sent.content = OwnMask(d)
       /\ FoundMaskDeleted(d)

\* C19: in every call the mask file is written before the inpainting
\* service is invoked and removed by the call only after the invocation has
\* completed; when no other call has run, the file exists, holding the
\* call's mask, for as long as the request is in flight.
C19_ArtifactSpansInvocation ==
    /\ \A c \in Callers :
          /\ steps[c].sends > 0 => steps[c].save = "ok"
          /\ steps[c].rm # "none" => steps[c].inpaint = "ok"
    /\ \A r \in inflight :
          /\ steps[r.caller].save = "ok"
          /\ steps[r.caller].rm = "none"
          /\ (\A d \in Callers \ {r.caller} : op[d] = "none")
             => /\ fs[frame[r.caller].mask_path].exists
                /\ fs[frame[r.caller].mask_path].content = OwnMask(r.caller)
                /\ r.mask_image.content = OwnMask(r.caller)

\* a request is in flight, no other caller has started anything, and the
\* mask file is on disk
C19_Witness ==
    \E r \in inflight :
       /\ \A d \in Callers \ {r.caller} : op[d] = "none"
       /\ pc[r.caller] = "wait"
       /\ steps[r.caller].save = "ok"
       /\ fs[frame[r.caller].mask_path].exists

\* C20: when the base image cannot be decoded, visualize_custom_part fails
\* with that error, having written no mask file and sent nothing to the
\* inpainting service; when it is the first call made, no mask file is on
\* disk.
C20_DecodeFailureStopsCall ==
    \A c \in Callers :
       steps[c].decode = "fail"
       => /\ pc[c] = AfterReturn(op[c])
          /\ ~ret[c].ok /\ ret[c].err = "ImageIOError"
          /\ steps[c].raster = "none" /\ steps[c].save = "none"
          /\ steps[c].sends = 0 /\ steps[c].inpaint = "none" /\ steps[c].rm = "none"
          /\ frame[c].mask_path = ""
          /\ \A r \in inflight : r.caller # c
          /\ started = 1 => (\A p \in PartType : ~fs[MaskPath(p)].exists)

\* a call on a base image that does not exist has returned the decoding
\* error, and no mask file is on disk
C20_Witness ==
    \E c \in Callers :
       /\ op[c] = "visualize" /\ pc[c] = "done"
       /\ frame[c].base = "missing.jpg"
       /\ steps[c].decode = "fail"
       /\ ~ret[c].ok /\ ret[c].err = "ImageIOError"
       /\ inflight = {}
       /\ started = 1
       /\ \A p \in PartType : ~fs[MaskPath(p)].exists

\* C21: the inpainting service is never retried: a visualize_custom_part
\* call invokes inpaint at most once, and a generate_options call makes at
\* most three such calls, one for each intensity in the order of the list,
\* so at most three invocations, at most one per intensity.
C21_NoRetry ==
    \A c \in Callers :
       /\ steps[c].sends <= 1
       /\ Cardinality({r \in inflight : r.caller = c}) <= 1
       /\ Len(batch[c].attempts) <= Len(intensities)
       /\ batch[c].attempts = SubSeq(intensities, 1, Len(batch[c].attempts))
       /\ Len(batch[c].sends) <= Len(batch[c].attempts)
       /\ \A k \in DOMAIN batch[c].sends : batch[c].sends[k] <= 1

\* a generate_options call has returned after three attempts, the first of
\* which failed at the service, each having invoked inpaint once
C21_Witness ==
    \E c \in Callers :
       /\ op[c] = "options" /\ pc[c] = "done" /\ bret[c].ok
       /\ batch[c].attempts = intensities
       /\ batch[c].sends = <<1, 1, 1>>
       /\ ~batch[c].outcomes[1].ok /\ batch[c].outcomes[1].err = "ServiceError"
       /\ batch[c].outcomes[2].ok /\ batch[c].outcomes[3].ok

\* the ellipse create_part_mask draws for the canvas and category of the
\* call under study at the intensity i
EllipseAt(i) ==
    create_part_mask(mk_in.width, mk_in.height, mk_in.part_type, i).val.ellipse

\* C22: the intensity changes only the radii of the ellipse, never its
\* centre: for a fixed category and canvas size the centre pixel is the same
\* at Minimal, Medium and Aggressive.
C22_CentreIndependentOfIntensity ==
    (mk_pc = "ret")
    => /\ mk_out.ok
       /\ \A i \in MaskIntensity :
             /\ EllipseAt(i).x = mk_out.val.ellipse.x
             /\ EllipseAt(i).y = mk_out.val.ellipse.y

\* a canvas on which the three intensities give three different pairs of
\* radii around the centre of the returned mask
C22_Witness ==
    /\ mk_pc = "ret" /\ mk_out.ok
    /\ mk_in.width = 1024 /\ mk_in.height = 1024 /\ mk_in.intensity = "Aggressive"
    /\ EllipseAt("Minimal").width < EllipseAt("Medium").width
    /\ EllipseAt("Medium").width < mk_out.val.ellipse.width
    /\ EllipseAt("Minimal").height < EllipseAt("Medium").height
    /\ EllipseAt("Medium").height < mk_out.val.ellipse.height
    /\ EllipseAt("Minimal").x = mk_out.val.ellipse.x
    /\ EllipseAt("Minimal").y = mk_out.val.ellipse.y

\* C26: for every category, intensity, width >= 1 and height >= 1 the
\* ellipse of create_part_mask lies wholly on the canvas before the blur:
\* centre minus radius >= 0 and centre plus radius <= dimension - 1 on both
\* axes.
C26_TemplateInsideCanvas ==
    (mk_pc = "ret" /\ mk_in.width >= 1 /\ mk_in.height >= 1)
    => LET e == mk_out.val.ellipse
       IN  /\ mk_out.ok
           /\ e.x - e.width >= 0
           /\ e.x + e.width <= mk_in.width - 1
           /\ e.y - e.height >= 0
           /\ e.y + e.height <= mk_in.height - 1

\* the largest template, the exhaust at Aggressive, on the 1024 x 1024
\* canvas
C26_Witness ==
    /\ mk_pc = "ret" /\ mk_out.ok
    /\ mk_in = [width |-> 1024, height |-> 1024, part_type |-> "Exhaust",
                intensity |-> "Aggressive"]
    /\ mk_out.val.ellipse.width > 0 /\ mk_out.val.ellipse.height > 0
    /\ mk_out.val.ellipse.x + mk_out.val.ellipse.width <= 1023
    /\ mk_out.val.ellipse.y + mk_out.val.ellipse.height <= 1023

\* C23: the mask generate_mask_from_image makes for a visualize call
\* depends only on the width and height of the base image, the category and
\* the intensity: any image of the same dimensions, whatever its content,
\* yields the identical mask, as does repeating the call, and the mask is
\* the one create_part_mask gives for those dimensions.
C23_MaskIgnoresContent ==
    (FromImageReturned /\ fs[mk_in.path].exists)
    => /\ mk_out.ok
       /\ mk_out = generate_mask_from_image(fs, mk_in.path, mk_in.part_type,
                                            mk_in.intensity)
       /\ mk_out = create_part_mask(fs[mk_in.path].width, fs[mk_in.path].height,
                                    mk_in.part_type, mk_in.intensity)
       /\ \A q \in BasePaths \cup {OtherPhoto} :
             (fs[q].exists /\ fs[q].width = fs[mk_in.path].width
                /\ fs[q].height = fs[mk_in.path].height)
             => generate_mask_from_image(fs, q, mk_in.part_type, mk_in.intensity)
                = mk_out

\* the mask of the second photograph has been made, while the first
\* photograph has the same dimensions and another content
C23_Witness ==
    /\ FromImageReturned /\ mk_in.path = OtherPhoto /\ mk_out.ok
    /\ mk_in.intensity = "Minimal"
    /\ fs["base.jpg"].exists
    /\ fs["base.jpg"].width = fs[OtherPhoto].width
    /\ fs["base.jpg"].height = fs[OtherPhoto].height
    /\ fs["base.jpg"].content # fs[OtherPhoto].content
    /\ mk_out.val.width = 5 /\ mk_out.val.height = 4

\* the files a and b of one path are the same: both absent, or both present
\* with the same dimensions and content
SameFile(a, b) ==
    /\ a.exists = b.exists
    /\ a.exists => (a.width = b.width /\ a.height = b.height /\ a.content = b.content)

\* the name of the temporary mask artifact of a category
SpecArtifactPath ==
    [Exhaust   |-> "temp_mask_Exhaust.png",
     Seat      |-> "temp_mask_Seat.png",
     Handlebar |-> "temp_mask_Handlebar.png"]

\* the caller's call creates, overwrites and deletes no file but its
\* temporary mask artifact
OnlyArtifactTouched(c) ==
    \A p \in Paths :
       ~SameFile(fs[p], fs'[p]) => p = SpecArtifactPath[frame'[c].part]

\* C24 as stated: the only file a visualize call creates, overwrites or
\* deletes is its temporary mask artifact, and the file at the base path is
\* left unchanged by every step of the call, for every base path and
\* category.
C24_BaseImageUntouched ==
    [][/\ OnlyArtifactTouched(FrameCaller)
       /\ frame'[FrameCaller].base # ""
          => SameFile(fs[frame'[FrameCaller].base], fs'[frame'[FrameCaller].base])]_vars

\* C24 amended: the only file a visualize call creates, overwrites or
\* deletes is its temporary mask artifact; the file at the base path is
\* left unchanged for every category and every base path other than the
\* path of that artifact.
C24_BaseImageUntouchedUnlessArtifact ==
    [][/\ OnlyArtifactTouched(FrameCaller)
       /\ (frame'[FrameCaller].base # ""
             /\ frame'[FrameCaller].base # SpecArtifactPath[frame'[FrameCaller].part])
          => SameFile(fs[frame'[FrameCaller].base], fs'[frame'[FrameCaller].base])]_vars

\* a call on the photograph has returned the image: it wrote and removed
\* its artifact, and the photograph is as it was
C24_Witness ==
    /\ op[FrameCaller] = "visualize" /\ pc[FrameCaller] = "done"
    /\ ret[FrameCaller].ok
    /\ frame[FrameCaller].base = "base.jpg"
    /\ steps[FrameCaller].save = "ok" /\ steps[FrameCaller].rm = "ok"
    /\ ~fs[frame[FrameCaller].mask_path].exists
    /\ SameFile(fs["base.jpg"], InitFiles["base.jpg"])

\* the region fractions of the calls under study, in quarters
Quarters(f) ==
    CASE f = F32Zero  -> 0
      [] f = f32_0_25 -> 1
      [] f = f32_0_5  -> 2
      [] f = f32_1_0  -> 4

\* the point (x, y) lies in the ellipse of centre (cx, cy) and radii a, b
InsideEllipse(x, y, cx, cy, a, b) ==
    /\ (x - cx) * (x - cx) <= a * a
    /\ (y - cy) * (y - cy) <= b * b
    /\ b * b * (x - cx) * (x - cx) + a * a * (y - cy) * (y - cy) <= a * a * b * b

IntensityIndex(i) == CHOOSE k \in DOMAIN intensities : intensities[k] = i

\* C27: generate_options never returns an error: whichever attempts fail,
\* it returns Ok with a list in which the intensities appear in strictly
\* increasing order of the list [Minimal, Medium, Aggressive], none twice,
\* the listed intensities being those whose call succeeded, each paired
\* with the bytes its own inpainting call returned.
C27_OptionsOkAndOrdered ==
    \A c \in Callers :
       (op[c] = "options" /\ pc[c] = "done")
       => /\ bret[c].ok
          /\ LET res == bret[c].val
             IN  /\ \A k \in DOMAIN res : res[k][1] \in MaskIntensity
                 /\ \A k \in DOMAIN res, l \in DOMAIN res :
                       k < l => IntensityIndex(res[k][1]) < IntensityIndex(res[l][1])
                 /\ \A k \in DOMAIN res :
                       /\ batch[c].outcomes[IntensityIndex(res[k][1])].ok
                       /\ res[k][2] = batch[c].outcomes[IntensityIndex(res[k][1])].val
                       /\ res[k][2] = ServiceBytes([caller |-> c, intensity |-> res[k][1]])
                 /\ \A j \in DOMAIN intensities :
                       batch[c].outcomes[j].ok
                       => \E k \in DOMAIN res : res[k][1] = intensities[j]

\* Medium failed, Minimal and Aggressive succeeded: the list returned holds
\* these two, in this order, each with its own bytes
C27_Witness ==
    \E c \in Callers :
       /\ op[c] = "options" /\ pc[c] = "done" /\ bret[c].ok
       /\ batch[c].outcomes[1].ok /\ ~batch[c].outcomes[2].ok /\ batch[c].outcomes[3].ok
       /\ Len(bret[c].val) = 2
       /\ bret[c].val[1][1] = "Minimal" /\ bret[c].val[2][1] = "Aggressive"
       /\ bret[c].val[1][2] # bret[c].val[2][2]

\* the RGB mask create_part_mask gives for the base image and category of
\* the call of c at the intensity i
MaskFor(c, i) ==
    to_rgb_mask(create_part_mask(fs[frame[c].base].width, fs[frame[c].base].height,
                                 frame[c].part, i).val)

\* C28: in a generate_options run the mask file each intensity's inpaint
\* reads holds the mask rasterized for that intensity, also when an earlier
\* intensity failed and left its file at the shared path.
C28_BatchReadsOwnMask ==
    /\ \A c \in Callers :
          (op[c] = "options" /\ steps[c].mask_sent.exists)
          => /\ steps[c].mask_sent.content = OwnMask(c)
             /\ steps[c].mask_sent.content = MaskFor(c, frame[c].intensity)
    /\ \A r \in inflight :
          op[r.caller] = "options"
          => r.mask_image.content = MaskFor(r.caller, r.intensity)

\* the Minimal attempt failed at the service and left its file; the Medium
\* request is in flight with the Medium mask, which is another mask
C28_Witness ==
    \E r \in inflight :
       /\ op[r.caller] = "options"
       /\ r.intensity = "Medium"
       /\ Len(batch[r.caller].outcomes) = 1
       /\ ~batch[r.caller].outcomes[1].ok
       /\ batch[r.caller].outcomes[1].err = "ServiceError"
       /\ r.mask_image.content = MaskFor(r.caller, "Medium")
       /\ r.mask_image.content # MaskFor(r.caller, "Minimal")

\* a step in which handle_socket polls the task status
PollStep == ws_pc = "poll" /\ ws_pc' # "poll"
\* a step in which handle_socket sends, or fails to send, a fetched status
SendStep == ws_pc = "send" /\ ws_pc' # "send"

\* C29: once a status SUCCEEDED or FAILED has been sent to the client, or a
\* status fetch has failed, or a send to the client has failed, handle_socket
\* never polls the task status again; every status fetched is sent exactly
\* once before any further poll.
C29_NoPollAfterStop ==
    [][/\ PollStep =>
             /\ ~ws_log.final_sent
             /\ ~ws_log.fetch_failed
             /\ ~ws_log.send_failed
             /\ ~(ws_sent.kind = "status" /\ ws_sent.status \in {"SUCCEEDED", "FAILED"})
             /\ ws_sent.kind # "error"
             /\ ws_log.unsent = 0
       /\ SendStep =>
             /\ ws_log.unsent = 1
             /\ ws_status.ok
             /\ ws_log'.unsent = 0 \/ ws_log'.send_failed
             /\ ws_log'.unsent = 0 => ws_sent' = StatusMessage(ws_status.val)
       /\ ws_pc = "closed" => ws_pc' = "closed"]_vars

\* after at least two polls the status SUCCEEDED has been sent and the
\* loop has ended
C29_Witness ==
    /\ ws_pc = "closed"
    /\ ws_polls >= 2
    /\ ws_log.final_sent /\ ~ws_log.fetch_failed /\ ~ws_log.send_failed
    /\ ws_log.unsent = 0
    /\ ws_sent.kind = "status" /\ ws_sent.status = "SUCCEEDED" /\ ws_sent.model_url

\* C30: handle_socket terminates whenever the task eventually stops being
\* in progress: if from some point on the task is in a final state
\* (succeeded, failed or otherwise no longer running), the polling loop ends.
C30_LoopEndsOnceTaskFinal ==
    (<>[](task.status \in FinalStatuses)) => <>(ws_pc = "closed")

====
